---------------------------- MODULE Spec2Model ----------------------------
(***************************************************************************)
(* AllSpark: comparison of two pandas DataFrames (AllSpark/core/           *)
(* pd_compare.py, class Compare).                                          *)
(*                                                                         *)
(* Cells are records [t, s, v]: t is the Python type of the value, s the   *)
(* characters of a str, v the number of a float/int/bool, the day of a     *)
(* Timestamp or the days of a Timedelta.  Floats are modelled by integers  *)
(* (finite values only); rtol is the rational num/den.                     *)
(* A Series is [dtype, idx, vals]: idx holds the index labels and vals the *)
(* cells, position by position.                                            *)
(***************************************************************************)
EXTENDS Integers, Sequences, FiniteSets, TLC

VARIABLES
    fn,         \* the static method a direct call is made to ("" when none)
    col1,       \* first column of a direct call
    col2,       \* second column of a direct call
    tol,        \* [atol, rnum, rden]: atol and rtol = rnum/rden
    ret,        \* [state, err, val]: outcome of a direct call
    args,       \* the arguments of Compare(...), the caller's tables included
    obj,        \* the Compare object under construction
    workers     \* the workers of the ThreadPool of line 379 (<<>> when none)

vars == <<fn, col1, col2, tol, ret, args, obj, workers>>

(***************************************************************************)
(* Bounds of the input domains.                                            *)
(***************************************************************************)
MaxLen == 2        \* rows of a column handed to a comparator directly
MaxVal == 2        \* numeric cells are 1..MaxVal (and NaN)
MaxRows == 3       \* rows of the left and the right table together

(***************************************************************************)
(* Cells.                                                                  *)
(***************************************************************************)
Num(n) == [t |-> "num", s |-> <<>>, v |-> n]
Bool(b) == [t |-> "bool", s |-> <<>>, v |-> b]
Str(cs) == [t |-> "str", s |-> cs, v |-> 0]
Dt(d) == [t |-> "dt", s |-> <<>>, v |-> d]
Td(d) == [t |-> "td", s |-> <<>>, v |-> d]
NaN == [t |-> "nan", s |-> <<>>, v |-> 0]
NaT == [t |-> "nat", s |-> <<>>, v |-> 0]
None == [t |-> "none", s |-> <<>>, v |-> 0]

DIFF_TRUE == Str(<<"D", "I", "F", "F", ".", "T", "R", "U", "E">>)

\* pd.isnull / Series.notnull on one cell
IsNull(c) == c.t \in {"nan", "nat", "none"}

Abs(n) == IF n < 0 THEN -n ELSE n

(***************************************************************************)
(* Python built-ins used by the comparators.                               *)
(***************************************************************************)
\* a != b on two Python objects
PyNe(a, b) ==
    IF a.t = "nan" \/ b.t = "nan" THEN TRUE
    ELSE IF a.t \in {"num", "bool"} /\ b.t \in {"num", "bool"} THEN a.v # b.v
    ELSE IF a.t = b.t THEN a # b
    ELSE TRUE

Digits == {"0", "1", "2", "3", "4", "5", "6", "7", "8", "9"}

DigitVal(ch) ==
    CASE ch = "0" -> 0 [] ch = "1" -> 1 [] ch = "2" -> 2 [] ch = "3" -> 3
      [] ch = "4" -> 4 [] ch = "5" -> 5 [] ch = "6" -> 6 [] ch = "7" -> 7
      [] ch = "8" -> 8 [] OTHER -> 9

RECURSIVE LStrip(_)
LStrip(cs) == IF cs # <<>> /\ Head(cs) = " " THEN LStrip(Tail(cs)) ELSE cs

RECURSIVE RStrip(_)
RStrip(cs) ==
    IF cs # <<>> /\ cs[Len(cs)] = " " THEN RStrip(SubSeq(cs, 1, Len(cs) - 1))
    ELSE cs

RECURSIVE DigitsVal(_)
DigitsVal(cs) ==
    IF cs = <<>> THEN 0
    ELSE 10 * DigitsVal(SubSeq(cs, 1, Len(cs) - 1)) + DigitVal(cs[Len(cs)])

Lower(ch) == CASE ch = "N" -> "n" [] ch = "A" -> "a" [] OTHER -> ch

\* float(str): surrounding blanks are stripped, then an optional sign and
\* decimal digits, or "nan" in any case; anything else is a ValueError.
\* (Strings with a fraction or an exponent are outside the input domain.)
FloatOfStr(cs) ==
    LET body == RStrip(LStrip(cs))
        signed == body # <<>> /\ Head(body) \in {"+", "-"}
        mag == IF signed THEN Tail(body) ELSE body
    IN  IF mag # <<>> /\ \A i \in 1..Len(mag) : mag[i] \in Digits
        THEN [ok |-> "ok",
              val |-> Num(IF signed /\ Head(body) = "-" THEN -DigitsVal(mag)
                          ELSE DigitsVal(mag))]
        ELSE IF Len(mag) = 3 /\ [i \in 1..3 |-> Lower(mag[i])] = <<"n", "a", "n">>
        THEN [ok |-> "ok", val |-> NaN]
        ELSE [ok |-> "ValueError", val |-> NaN]

\* float(x)
PyFloat(c) ==
    CASE c.t \in {"num", "bool"} -> [ok |-> "ok", val |-> Num(c.v)]
      [] c.t = "nan" -> [ok |-> "ok", val |-> NaN]
      [] c.t = "str" -> FloatOfStr(c.s)
      [] OTHER -> [ok |-> "TypeError", val |-> NaN]

(***************************************************************************)
(* numpy                                                                   *)
(***************************************************************************)
\* np.isclose with the relative term taken from the first argument
IsClose_RelativeToFirst(a, b, t, equal_nan) ==
    IF a.t = "nan" /\ b.t = "nan" THEN equal_nan
    ELSE IF a.t = "nan" \/ b.t = "nan" THEN FALSE
    ELSE Abs(a.v - b.v) * t.rden <= t.atol * t.rden + t.rnum * Abs(a.v)

\* np.isclose(a, b, rtol, atol, equal_nan) on one pair of floats:
\* |a - b| <= atol + rtol * |b|
IsClose(a, b, t, equal_nan) ==
    IF a.t = "nan" /\ b.t = "nan" THEN equal_nan
    ELSE IF a.t = "nan" \/ b.t = "nan" THEN FALSE
    ELSE Abs(a.v - b.v) * t.rden <= t.atol * t.rden + t.rnum * Abs(b.v)

(***************************************************************************)
(* Series                                                                  *)
(***************************************************************************)
Series(dtype, idx, vals) == [dtype |-> dtype, idx |-> idx, vals |-> vals]

\* the value None where a Series is expected
NoSeries == Series("NoneType", <<>>, <<>>)

Size(s) == Len(s.vals)

\* pd.RangeIndex(n): labels 0 .. n-1
RangeIndex(n) == [i \in 1..n |-> i - 1]

\* np.full(n, np.nan, dtype='O')
FullNaN(n) == [i \in 1..n |-> NaN]

\* Series.__getitem__(label) on an integer index: the lookup is by label.
\* One match gives the scalar, no match raises KeyError, several matches
\* give a Series.
GetItem(s, label) ==
    LET hits == {i \in 1..Size(s) : s.idx[i] = label}
    IN  IF hits = {} THEN [kind |-> "KeyError", val |-> NaN]
        ELSE IF Cardinality(hits) = 1
        THEN [kind |-> "scalar", val |-> s.vals[CHOOSE i \in hits : TRUE]]
        ELSE [kind |-> "series", val |-> NaN]

\* array_equivalent on one pair of cells: nulls in the same place are equal
CellEquivalent(a, b) ==
    \/ a = b
    \/ a.t \in {"num", "bool"} /\ b.t \in {"num", "bool"} /\ a.v = b.v
    \/ IsNull(a) /\ IsNull(b)

\* Series.equals: same index, same dtype, equivalent cells
SeriesEquals(a, b) ==
    /\ a.dtype = b.dtype
    /\ a.idx = b.idx
    /\ Size(a) = Size(b)
    /\ \A i \in 1..Size(a) : CellEquivalent(a.vals[i], b.vals[i])

\* a finished call: err is "" or the name of the exception raised
Returned(val) == [state |-> "returned", err |-> "", val |-> val]
Raised(err) == [state |-> "returned", err |-> err, val |-> NoSeries]
Pending == [state |-> "pending", err |-> "", val |-> NoSeries]

(***************************************************************************)
(* Compare.compare_timeseries_column: col1 - col2                          *)
(***************************************************************************)
\* the absolute difference in time the docstring speaks of
TimeDelta_Absolute(a, b) ==
    IF a.t = "dt" /\ b.t = "dt" THEN Td(Abs(a.v - b.v)) ELSE NaT

\* Timestamp - Timestamp on one pair of cells of two datetime64 columns
TimeDelta(a, b) == IF a.t = "dt" /\ b.t = "dt" THEN Td(a.v - b.v) ELSE NaT

compare_timeseries_column(c1, c2) ==
    Returned(Series("timedelta64", c1.idx,
                    [i \in 1..Size(c1) |-> TimeDelta(c1.vals[i], c2.vals[i])]))

(***************************************************************************)
(* Compare.compare_object_columns                                          *)
(***************************************************************************)
\* lines 255-259 without line 257: a NaN difference is stored as it is
FloatDiff_NoSentinel(val1, val2, t) ==
    IF ~IsClose(val1, val2, t, FALSE)
    THEN IF val1.t = "nan" \/ val2.t = "nan" THEN NaN
         ELSE Num(val1.v - val2.v)
    ELSE NaN

\* lines 255-259: both cells were coerced, and are not both NaN
FloatDiff(val1, val2, t) ==
    IF ~IsClose(val1, val2, t, FALSE)
    THEN IF val1.t = "nan" \/ val2.t = "nan" THEN DIFF_TRUE
         ELSE Num(val1.v - val2.v)
    ELSE NaN

\* lines 248-262 for one pair of cells: the diff cell, or the exception
\* that leaves the function (only ValueError is caught)
ObjectCell(a, b, t) ==
    IF ~PyNe(a, b) THEN [err |-> "", val |-> NaN]
    ELSE LET f1 == PyFloat(a)
             f2 == PyFloat(b)
         IN  IF f1.ok = "ValueError" THEN [err |-> "", val |-> DIFF_TRUE]
             ELSE IF f1.ok = "TypeError" THEN [err |-> "TypeError", val |-> NaN]
             ELSE IF f2.ok = "ValueError" THEN [err |-> "", val |-> DIFF_TRUE]
             ELSE IF f2.ok = "TypeError" THEN [err |-> "TypeError", val |-> NaN]
             ELSE IF f1.val.t = "nan" /\ f2.val.t = "nan"
             THEN [err |-> "", val |-> NaN]
             ELSE [err |-> "", val |-> FloatDiff(f1.val, f2.val, t)]

\* the outcome of a loop whose pass i yields cells[i]: the first exception
\* ends the call, otherwise the cells are the result
LoopResult(idx, cells) ==
    LET bad == {i \in DOMAIN cells : cells[i].err # ""}
    IN  IF bad # {}
        THEN Raised(cells[CHOOSE i \in bad : \A j \in bad : i <= j].err)
        ELSE Returned(Series("object", idx, [i \in DOMAIN cells |-> cells[i].val]))

compare_object_columns(c1, c2, t) ==
    LoopResult(c1.idx, [i \in 1..Size(c2) |-> ObjectCell(c1.vals[i], c2.vals[i], t)])

(***************************************************************************)
(* Compare.compare_numeric_columns                                         *)
(***************************************************************************)
\* line 289: np.isclose(col1, col2, equal_nan=True), position by position
IfNumDiff(c1, c2, t) ==
    [i \in 1..Size(c1) |-> IsClose(c1.vals[i], c2.vals[i], t, TRUE)]

\* lines 293-298 for the entry of if_num_diff at position i, whose label in
\* the fresh RangeIndex of if_num_diff is i - 1: col1[index] and col2[index]
\* are looked up by that label in the index of col1 and col2
NumericCell(c1, c2, x_equals_y, i) ==
    IF x_equals_y THEN [err |-> "", val |-> NaN]
    ELSE LET x == GetItem(c1, i - 1)
             y == GetItem(c2, i - 1)
         IN  IF x.kind = "KeyError" \/ y.kind = "KeyError"
             THEN [err |-> "KeyError", val |-> NaN]
             ELSE IF x.kind = "series" \/ y.kind = "series"
             THEN [err |-> "ValueError", val |-> NaN]
             ELSE IF x.val.t = "nan" \/ y.val.t = "nan"
             THEN [err |-> "", val |-> DIFF_TRUE]
             ELSE [err |-> "", val |-> Num(x.val.v - y.val.v)]

\* lines 291-299, if_num_diff given
NumericDiff(c1, c2, if_num_diff) ==
    IF \A i \in DOMAIN if_num_diff : if_num_diff[i]
    THEN Returned(Series("object", c1.idx, FullNaN(Size(c1))))
    ELSE LoopResult(c1.idx, [i \in DOMAIN if_num_diff |->
                                NumericCell(c1, c2, if_num_diff[i], i)])

compare_numeric_columns(c1, c2, t) == NumericDiff(c1, c2, IfNumDiff(c1, c2, t))

(***************************************************************************)
(* Compare.compare_column                                                  *)
(***************************************************************************)
\* np.issubdtype(dtype, np.number)
IsNumberDtype(dtype) == dtype \in {"int64", "float64"}

\* dtype.kind
Kind(dtype) ==
    CASE dtype = "int64" -> "i" [] dtype = "float64" -> "f"
      [] dtype = "bool" -> "b" [] dtype = "datetime64" -> "M"
      [] dtype = "timedelta64" -> "m" [] OTHER -> "O"

compare_column(c1, c2, t) ==
    IF SeriesEquals(c1, c2) THEN Returned(NoSeries)
    ELSE IF IsNumberDtype(c1.dtype) /\ IsNumberDtype(c2.dtype)
         THEN compare_numeric_columns(c1, c2, t)
    ELSE IF Kind(c1.dtype) = "M" /\ Kind(c2.dtype) = "M"
         THEN compare_timeseries_column(c1, c2)
    ELSE IF Kind(c1.dtype) = "O" \/ Kind(c1.dtype) = "O"
         THEN compare_object_columns(c1, c2, t)
    ELSE Returned(NoSeries)

(***************************************************************************)
(* Input domains of the direct calls.                                      *)
(***************************************************************************)
Tolerances ==
    { [atol |-> 0, rnum |-> 0, rden |-> 1],      \* atol = 0, rtol = 0
      [atol |-> 1, rnum |-> 0, rden |-> 1],      \* atol = 1, rtol = 0
      [atol |-> 0, rnum |-> 1, rden |-> 2] }     \* atol = 0, rtol = 0.5

ZeroTol == [atol |-> 0, rnum |-> 0, rden |-> 1]

NumVals == {NaN} \cup {Num(n) : n \in 1..MaxVal}
IntVals == {Num(n) : n \in 1..MaxVal}
DtVals == {NaT, Dt(5), Dt(6), Dt(8)}
BoolVals == {Bool(0), Bool(1)}
ObjVals ==
    { Str(<<"a", "b", "c">>), Str(<<"A", "B", "C">>), Str(<<"a", "b", "c", " ">>),
      Str(<<"1">>), Str(<<" ", "2">>), NaN, None }
ObjFew == {Str(<<"a", "b", "c">>), Str(<<"1">>), Str(<<" ", "2">>), NaN, None}

Lengths == 1..MaxLen

\* the index labels of a column of n rows: the default RangeIndex, the keys
\* 1..n of a merged table, and a key that occurs in every row
Indexes(n) == {RangeIndex(n), [i \in 1..n |-> i], [i \in 1..n |-> 1]}

ValsOf(dtype) ==
    CASE dtype = "float64" -> NumVals
      [] dtype = "int64" -> IntVals
      [] dtype = "datetime64" -> DtVals
      [] dtype = "bool" -> BoolVals
      [] OTHER -> ObjFew

\* the dtype pairings compare_column is called with
DtypePairs ==
    { <<"float64", "float64">>, <<"int64", "int64">>, <<"int64", "float64">>,
      <<"datetime64", "datetime64">>, <<"object", "object">>,
      <<"bool", "bool">>, <<"float64", "object">>, <<"object", "float64">>,
      <<"datetime64", "float64">> }

NoObject == [pc |-> "none"]
\* no ThreadPool has been started
NoPool == <<>>
NoArgs == [left |-> "none"]

\* a direct call of the static method f on two columns of dtypes d1, d2
\* with cells from v1, v2
CallInit(f, d1, v1, d2, v2, tols) ==
    /\ fn = f
    /\ \E n \in Lengths : \E idx \in Indexes(n) :
         /\ col1 \in {Series(d1, idx, vals) : vals \in [1..n -> v1]}
         /\ col2 \in {Series(d2, idx, vals) : vals \in [1..n -> v2]}
    /\ tol \in tols
    /\ ret = Pending
    /\ args = NoArgs
    /\ obj = NoObject
    /\ workers = NoPool

Call(f, result) ==
    /\ fn = f
    /\ ret.state = "pending"
    /\ ret' = result
    /\ UNCHANGED <<fn, col1, col2, tol, args, obj, workers>>

InitNumeric ==
    CallInit("compare_numeric_columns", "float64", NumVals, "float64", NumVals,
             Tolerances)
CallNumeric ==
    Call("compare_numeric_columns", compare_numeric_columns(col1, col2, tol))
SpecNumeric == InitNumeric /\ [][CallNumeric]_vars

InitTimeseries ==
    CallInit("compare_timeseries_column", "datetime64", DtVals,
             "datetime64", DtVals, {ZeroTol})
CallTimeseries ==
    Call("compare_timeseries_column", compare_timeseries_column(col1, col2))
SpecTimeseries == InitTimeseries /\ [][CallTimeseries]_vars

InitObject ==
    CallInit("compare_object_columns", "object", ObjVals, "object", ObjVals,
             Tolerances)
CallObject ==
    Call("compare_object_columns", compare_object_columns(col1, col2, tol))
SpecObject == InitObject /\ [][CallObject]_vars

InitColumn ==
    \E p \in DtypePairs :
        CallInit("compare_column", p[1], ValsOf(p[1]), p[2], ValsOf(p[2]),
                 Tolerances)
CallColumn ==
    Call("compare_column", compare_column(col1, col2, tol))
SpecColumn == InitColumn /\ [][CallColumn]_vars

(***************************************************************************)
(* DataFrames.  An input table is [type, columns, index, levels, data]:    *)
(* columns in order, the index labels, the extra index levels added by     *)
(* set_index(append=True), and per column its dtype and cells.  The merged *)
(* table and the diff are [type, index, present, data, lmiss, rmiss]:      *)
(* present is the column rows_present, lmiss / rmiss the text of the       *)
(* columns <lsuffix>_missing_columns / <rsuffix>_missing_columns ({} when  *)
(* the column is absent).  Column order of a merged table is not modelled. *)
(***************************************************************************)
Column(dtype, vals) == [dtype |-> dtype, vals |-> vals]

Range(seq) == {seq[i] : i \in 1..Len(seq)}

DataFrame(columns, index, data) ==
    [type |-> "DataFrame", columns |-> columns, index |-> index,
     levels |-> <<>>, data |-> data]

\* the value None where a table is expected
NoneFrame ==
    [type |-> "NoneType", columns |-> <<>>, index |-> <<>>, levels |-> <<>>,
     data |-> <<>>]

Frame(index, present, data, lmiss, rmiss) ==
    [type |-> "DataFrame", index |-> index, present |-> present, data |-> data,
     lmiss |-> lmiss, rmiss |-> rmiss]

\* pd.DataFrame()
EmptyFrame == Frame(<<>>, <<>>, <<>>, {}, {})

\* the value None where a merged table or a diff is expected
NoFrame ==
    [type |-> "NoneType", index |-> <<>>, present |-> <<>>, data |-> <<>>,
     lmiss |-> {}, rmiss |-> {}]

\* df[c] of a merged table or of one of its partitions
ColumnOf(df, c) == Series(df.data[c].dtype, df.index, df.data[c].vals)

\* DataFrame.equals: same axes, same dtypes, equivalent cells
FrameEquals(a, b) ==
    /\ a.type = "DataFrame" /\ b.type = "DataFrame"
    /\ a.columns = b.columns
    /\ a.index = b.index
    /\ a.levels = b.levels
    /\ \A c \in Range(a.columns) :
         /\ a.data[c].dtype = b.data[c].dtype
         /\ \A i \in 1..Len(a.index) :
              CellEquivalent(a.data[c].vals[i], b.data[c].vals[i])

\* Series.duplicated() / Index.duplicated(keep='first') on a list of labels
Duplicated(labels) ==
    [i \in 1..Len(labels) |-> \E j \in 1..(i - 1) : labels[j] = labels[i]]

RECURSIVE SortedSeq(_)
SortedSeq(S) ==
    IF S = {} THEN <<>>
    ELSE LET m == CHOOSE x \in S : \A y \in S : x <= y
         IN  <<m>> \o SortedSeq(S \ {m})

RECURSIVE Flatten(_)
Flatten(seqs) == IF seqs = <<>> THEN <<>> ELSE Head(seqs) \o Flatten(Tail(seqs))

\* the positions i >= from, ascending, at which flags[i] is true
RECURSIVE Positions(_, _)
Positions(flags, from) ==
    IF from > Len(flags) THEN <<>>
    ELSE (IF flags[from] THEN <<from>> ELSE <<>>) \o Positions(flags, from + 1)

(***************************************************************************)
(* Configuration of a Compare object (defaults of __init__).               *)
(***************************************************************************)
lsuffix == "_left"
rsuffix == "_right"
dsuffix == "_diff"

IF_DUPLICATE_KEY_METHODS == {"drop", "sort", "aggregate"}

left_unq_columns(o) == Range(o.left.columns) \ Range(o.right.columns)
right_unq_columns(o) == Range(o.right.columns) \ Range(o.left.columns)
common_columns(o) ==
    (Range(o.left.columns) \cap Range(o.right.columns)) \ Range(o.key_columns)

(***************************************************************************)
(* Compare._merge_dataframe: pd.merge(how='outer', sort=True,              *)
(* on=key_columns, indicator='rows_present').set_index(key_columns)        *)
(***************************************************************************)
\* the key of row i of an input table (one key column)
KeyAt(df, key, i) == df.data[key].vals[i].v

\* the aligned row pairs <<row of left, row of right>>, 0 for a missing row:
\* keys ascending; the rows of one key are paired each with each, left-major
MergePairs(l, r, key) ==
    LET nl == Len(l.index)
        nr == Len(r.index)
        keys == {KeyAt(l, key, i) : i \in 1..nl} \cup {KeyAt(r, key, i) : i \in 1..nr}
        order == SortedSeq(keys)
        block(x) ==
            LET lp == Positions([i \in 1..nl |-> KeyAt(l, key, i) = x], 1)
                rp == Positions([i \in 1..nr |-> KeyAt(r, key, i) = x], 1)
            IN  IF rp = <<>> THEN [m \in 1..Len(lp) |-> <<lp[m], 0>>]
                ELSE IF lp = <<>> THEN [m \in 1..Len(rp) |-> <<0, rp[m]>>]
                ELSE [m \in 1..(Len(lp) * Len(rp)) |->
                         <<lp[((m - 1) \div Len(rp)) + 1],
                           rp[((m - 1) % Len(rp)) + 1]>>]
    IN  Flatten([x \in 1..Len(order) |-> block(order[x])])

\* a column of the merge result: the cells of col at the paired rows, the
\* missing value where the side has no row; pandas widens int64 to float64
\* and bool to object when a value is missing
Reindexed(col, rows) ==
    LET missing == \E m \in 1..Len(rows) : rows[m] = 0
        dtype == IF ~missing THEN col.dtype
                 ELSE IF col.dtype = "int64" THEN "float64"
                 ELSE IF col.dtype = "bool" THEN "object"
                 ELSE col.dtype
        na == IF col.dtype = "datetime64" THEN NaT ELSE NaN
    IN  Column(dtype, [m \in 1..Len(rows) |->
                          IF rows[m] = 0 THEN na ELSE col.vals[rows[m]]])

merge_dataframe(o) ==
    LET key == o.key_columns[1]
        pairs == MergePairs(o.left, o.right, key)
        n == Len(pairs)
        lrows == [m \in 1..n |-> pairs[m][1]]
        rrows == [m \in 1..n |-> pairs[m][2]]
        common == common_columns(o)
        names == {c \o lsuffix : c \in common} \cup {c \o rsuffix : c \in common}
                 \cup left_unq_columns(o) \cup right_unq_columns(o)
        source(name) ==
            IF \E c \in common : name = c \o lsuffix
            THEN Reindexed(o.left.data[CHOOSE c \in common : name = c \o lsuffix], lrows)
            ELSE IF \E c \in common : name = c \o rsuffix
            THEN Reindexed(o.right.data[CHOOSE c \in common : name = c \o rsuffix], rrows)
            ELSE IF name \in left_unq_columns(o)
            THEN Reindexed(o.left.data[name], lrows)
            ELSE Reindexed(o.right.data[name], rrows)
    IN  Frame([m \in 1..n |-> IF lrows[m] # 0 THEN KeyAt(o.left, key, lrows[m])
                              ELSE KeyAt(o.right, key, rrows[m])],
              [m \in 1..n |-> IF rrows[m] = 0 THEN "left_only"
                              ELSE IF lrows[m] = 0 THEN "right_only"
                              ELSE "both"],
              [name \in names |-> source(name)],
              {}, {})

(***************************************************************************)
(* Compare.multiprocess_compare                                            *)
(***************************************************************************)
\* Compare.get_diff_row on one cell
get_diff_row(c) == ~IsNull(c)

\* Compare.count_notna
count_notna(vals) == Cardinality({i \in 1..Len(vals) : ~IsNull(vals[i])})

\* df.loc[labels]: for every label in turn, all the rows that carry it
LocRows(index, labels) ==
    LET rows(m) == Positions([i \in 1..Len(index) |-> index[i] = labels[m]], 1)
    IN  Flatten([m \in 1..Len(labels) |-> rows(m)])

\* the rows of df at the given positions
TakeRows(df, pos) ==
    Frame([m \in 1..Len(pos) |-> df.index[pos[m]]],
          [m \in 1..Len(pos) |-> df.present[pos[m]]],
          [name \in DOMAIN df.data |->
              Column(df.data[name].dtype,
                     [m \in 1..Len(pos) |-> df.data[name].vals[pos[m]]])],
          df.lmiss, df.rmiss)

\* lines 344-361: the diff table of df from the outcome res[c] of
\* compare_column for every common column c
AssembleDiff(o, df, res) ==
    LET common == DOMAIN res
        n == Len(df.index)
        names == {c \o lsuffix : c \in common} \cup {c \o rsuffix : c \in common}
                 \cup {c \o dsuffix : c \in common}
        cell(name) ==
            IF name \in DOMAIN df.data THEN df.data[name]
            ELSE LET c == CHOOSE c \in common : name = c \o dsuffix
                 IN  IF res[c].val # NoSeries
                     THEN Column(res[c].val.dtype, res[c].val.vals)
                     ELSE Column("float64", FullNaN(n))
        diff_df == Frame(df.index, df.present, [name \in names |-> cell(name)],
                         right_unq_columns(o), left_unq_columns(o))
        marked == Positions([i \in 1..n |->
                                \E c \in common :
                                    /\ res[c].val # NoSeries
                                    /\ get_diff_row(res[c].val.vals[i])], 1)
        rows_with_diff == [m \in 1..Len(marked) |-> df.index[marked[m]]]
    IN  IF o.keep_only_diff_rows
        THEN TakeRows(diff_df, LocRows(df.index, rows_with_diff))
        ELSE diff_df

\* the outcome of the loop of lines 336-350 over the common columns; when
\* several columns raise, the one reached first in the iteration of the set
\* common_columns decides, here an arbitrary one
ColumnLoop(o, df, res) ==
    LET bad == {c \in DOMAIN res : res[c].err # ""}
    IN  IF bad # {} THEN [err |-> res[CHOOSE c \in bad : TRUE].err, val |-> NoFrame]
        ELSE [err |-> "", val |-> AssembleDiff(o, df, res)]

\* Compare.multiprocess_compare on the merged table or one partition of it
multiprocess_compare(o, df) ==
    ColumnLoop(o, df, [c \in common_columns(o) |->
                          compare_column(ColumnOf(df, c \o lsuffix),
                                         ColumnOf(df, c \o rsuffix), o.tol)])

\* np.array_split(df, n): n consecutive row ranges, the first len % n of
\* them one row longer
array_split(df, n) ==
    LET len == Len(df.index)
        each == len \div n
        extras == len % n
        start(p) == (p - 1) * each + (IF p - 1 < extras THEN p - 1 ELSE extras)
        size(p) == each + (IF p <= extras THEN 1 ELSE 0)
    IN  [p \in 1..n |-> TakeRows(df, [m \in 1..size(p) |-> start(p) + m])]

\* an append that puts the rows of the later frame first
FrameAppend_Prepend(a, b) ==
    IF DOMAIN a.data = {} /\ a.index = <<>> THEN b
    ELSE Frame(b.index \o a.index, b.present \o a.present,
               [name \in DOMAIN a.data \cup DOMAIN b.data |->
                   Column(IF name \in DOMAIN a.data THEN a.data[name].dtype
                          ELSE b.data[name].dtype,
                          (IF name \in DOMAIN b.data THEN b.data[name].vals
                           ELSE FullNaN(Len(b.index)))
                          \o (IF name \in DOMAIN a.data THEN a.data[name].vals
                              ELSE FullNaN(Len(a.index))))],
               a.lmiss \cup b.lmiss, a.rmiss \cup b.rmiss)

\* DataFrame.append: the rows of b after the rows of a
FrameAppend(a, b) ==
    IF DOMAIN a.data = {} /\ a.index = <<>> THEN b
    ELSE Frame(a.index \o b.index, a.present \o b.present,
               [name \in DOMAIN a.data \cup DOMAIN b.data |->
                   Column(IF name \in DOMAIN a.data THEN a.data[name].dtype
                          ELSE b.data[name].dtype,
                          (IF name \in DOMAIN a.data THEN a.data[name].vals
                           ELSE FullNaN(Len(a.index)))
                          \o (IF name \in DOMAIN b.data THEN b.data[name].vals
                              ELSE FullNaN(Len(b.index))))],
               a.lmiss \cup b.lmiss, a.rmiss \cup b.rmiss)

RECURSIVE AppendAll(_, _)
AppendAll(acc, frames) ==
    IF frames = <<>> THEN acc
    ELSE AppendAll(FrameAppend(acc, Head(frames)), Tail(frames))

\* a drop that removes the diff column only and keeps the left and right ones
drop_non_diff_columns_DiffOnly(o) ==
    LET dropped == {c \in o.column_mapping :
                       count_notna(o.diff.data[c \o dsuffix].vals) = 0}
        drop_col == {c \o dsuffix : c \in dropped}
    IN  Frame(o.diff.index, o.diff.present,
              [name \in DOMAIN o.diff.data \ drop_col |-> o.diff.data[name]],
              o.diff.lmiss, o.diff.rmiss)

\* Compare.drop_non_diff_columns: the three columns of every mapped column
\* whose diff has no non-null cell are dropped
drop_non_diff_columns(o) ==
    LET dropped == {c \in o.column_mapping :
                       count_notna(o.diff.data[c \o dsuffix].vals) = 0}
        drop_col == {c \o lsuffix : c \in dropped} \cup {c \o rsuffix : c \in dropped}
                    \cup {c \o dsuffix : c \in dropped}
    IN  Frame(o.diff.index, o.diff.present,
              [name \in DOMAIN o.diff.data \ drop_col |-> o.diff.data[name]],
              o.diff.lmiss, o.diff.rmiss)

\* Compare.prepare_metadata: df.count().drop('rows_present')
prepare_metadata(df) ==
    LET markers == (IF df.lmiss # {} THEN {lsuffix \o "_missing_columns"} ELSE {})
                   \cup (IF df.rmiss # {} THEN {rsuffix \o "_missing_columns"} ELSE {})
    IN  [name \in DOMAIN df.data \cup markers |->
            IF name \in DOMAIN df.data THEN count_notna(df.data[name].vals)
            ELSE Len(df.index)]

(***************************************************************************)
(* Validation and duplicate keys.                                          *)
(***************************************************************************)
\* Compare._validate_dataframe on self.left or self.right: "" or the
\* exception raised. self.key_columns is not set when on_index is true.
validate_dataframe(o, index) ==
    LET dataframe == IF index = "left" THEN o.left ELSE o.right
    IN  IF dataframe.type # "DataFrame"
        THEN "TypeError: " \o index \o " must be a pandas DataFrame"
        ELSE IF dataframe.index = <<>> \/ dataframe.columns = <<>>
        THEN "ValueError: " \o index \o " can not be empty"
        ELSE IF o.on_index
        THEN "AttributeError: 'Compare' object has no attribute 'key_columns'"
        ELSE IF ~(Range(o.key_columns) \subseteq Range(dataframe.columns))
        THEN "ValueError: " \o index \o " must have all columns from key columns"
        ELSE ""

\* the key tuples of the rows of df
KeyTuples(df, keys) ==
    [i \in 1..Len(df.index) |-> [j \in 1..Len(keys) |-> df.data[keys[j]].vals[i]]]

\* Compare.check_duplicate_keys (key_columns branch)
check_duplicate_keys(o) ==
    LET ld == Duplicated(KeyTuples(o.left, o.key_columns))
        rd == Duplicated(KeyTuples(o.right, o.key_columns))
    IN  (\E i \in 1..Len(ld) : ld[i]) \/ (\E i \in 1..Len(rd) : rd[i])

\* the rows of an input table at the given positions
TakeInputRows(df, pos) ==
    [df EXCEPT !.index = [m \in 1..Len(pos) |-> df.index[pos[m]]],
               !.data = [c \in DOMAIN df.data |->
                            Column(df.data[c].dtype,
                                   [m \in 1..Len(pos) |-> df.data[c].vals[pos[m]]])]]

\* df['sort_key'] = np.arange(len(df)), in place
WithSortKey(df) ==
    [df EXCEPT !.columns = IF "sort_key" \in Range(df.columns) THEN df.columns
                           ELSE Append(df.columns, "sort_key"),
               !.data = [c \in DOMAIN df.data \cup {"sort_key"} |->
                            IF c = "sort_key"
                            THEN Column("int64", [i \in 1..Len(df.index) |-> Num(i - 1)])
                            ELSE df.data[c]]]

\* df.set_index('sort_key', append=True): the column becomes an index level
SetIndexAppend(df) ==
    LET pos == Positions([i \in 1..Len(df.columns) |-> df.columns[i] # "sort_key"], 1)
    IN  [df EXCEPT !.columns = [m \in 1..Len(pos) |-> df.columns[pos[m]]],
                   !.levels = Append(df.levels, "sort_key"),
                   !.data = [c \in DOMAIN df.data \ {"sort_key"} |-> df.data[c]]]

\* Compare.handle_duplicate_keys: [df: the table as left in place, out: the
\* value returned, keys: self.key_columns afterwards]
handle_duplicate_keys(o, df) ==
    IF o.if_dupes = "drop"
    THEN LET dup == Duplicated(df.index)
             first == [i \in 1..Len(df.index) |-> ~dup[i]]
         IN  [df |-> df, keys |-> o.key_columns,
              out |-> TakeInputRows(df, Positions(first, 1))]
    ELSE IF o.if_dupes = "sort"
    THEN [df |-> WithSortKey(df), keys |-> Append(o.key_columns, "sort_key"),
          out |-> SetIndexAppend(WithSortKey(df))]
    ELSE [df |-> df, keys |-> o.key_columns, out |-> NoneFrame]

(***************************************************************************)
(* Compare.__init__ and Compare._compare, one action per step.             *)
(***************************************************************************)
\* key_columns=None
NoKeys == <<>>

\* the object before __init__ has assigned anything
NewObject ==
    [pc |-> "init", err |-> "", key_columns |-> NoKeys, on_index |-> FALSE,
     if_dupes |-> "", left |-> NoneFrame, right |-> NoneFrame, tol |-> ZeroTol,
     ignore_extra_columns |-> FALSE, keep_only_diff_rows |-> FALSE,
     keep_only_diff_columns |-> FALSE, pool_size |-> 0, dups |-> FALSE,
     diff |-> NoFrame, merge_df |-> NoFrame, metadata |-> <<>>,
     column_mapping |-> {}]

Raise(o, err) == [o EXCEPT !.pc = "error", !.err = err]

UnitIdle == <<fn, col1, col2, tol, ret, workers>>

\* __init__ with the test of line 78 left out: any policy is stored
Construct_PolicyUnchecked ==
    /\ obj.pc = "init"
    /\ obj' =
         IF args.key_columns = NoKeys /\ ~args.on_index
         THEN Raise(obj, "Exception: Provide key_columns, or set on_index = True")
         ELSE LET o == IF args.on_index THEN [obj EXCEPT !.on_index = TRUE]
                       ELSE [obj EXCEPT !.key_columns = args.key_columns,
                                        !.on_index = FALSE]
              IN  [o EXCEPT !.if_dupes = args.if_duplicate_keys, !.pc = "set_left"]
    /\ UNCHANGED <<UnitIdle, args>>

\* lines 63-81: key_columns / on_index, then the duplicate-key policy
Construct ==
    /\ obj.pc = "init"
    /\ obj' =
         IF args.key_columns = NoKeys /\ ~args.on_index
         THEN Raise(obj, "Exception: Provide key_columns, or set on_index = True")
         ELSE LET o == IF args.on_index THEN [obj EXCEPT !.on_index = TRUE]
                       ELSE [obj EXCEPT !.key_columns = args.key_columns,
                                        !.on_index = FALSE]
              IN  IF args.if_duplicate_keys \in IF_DUPLICATE_KEY_METHODS
                  THEN [o EXCEPT !.if_dupes = args.if_duplicate_keys,
                                 !.pc = "set_left"]
                  ELSE Raise(o, "ValueError: not a valid strategy")
    /\ UNCHANGED <<UnitIdle, args>>

\* line 83 and the setter of left (lines 109-114)
SetLeft ==
    /\ obj.pc = "set_left"
    /\ LET o == [obj EXCEPT !.left = args.left]
           err == validate_dataframe(o, "left")
       IN  obj' = IF err # "" THEN Raise(o, err) ELSE [o EXCEPT !.pc = "set_right"]
    /\ UNCHANGED <<UnitIdle, args>>

\* line 84 and the setter of right (lines 120-125)
SetRight ==
    /\ obj.pc = "set_right"
    /\ LET o == [obj EXCEPT !.right = args.right]
           err == validate_dataframe(o, "right")
       IN  obj' = IF err # "" THEN Raise(o, err) ELSE [o EXCEPT !.pc = "configure"]
    /\ UNCHANGED <<UnitIdle, args>>

\* cpu_count() of the machines considered
CpuCounts == {2}

\* lines 85-102
Configure ==
    /\ obj.pc = "configure"
    /\ \E cpus \in CpuCounts :
         obj' = [obj EXCEPT
                   !.tol = args.tol,
                   !.ignore_extra_columns = args.ignore_extra_columns,
                   !.keep_only_diff_rows = args.keep_only_diff_rows,
                   !.keep_only_diff_columns = args.keep_only_diff_columns,
                   !.pool_size = IF args.pool_size > 0 THEN args.pool_size ELSE cpus,
                   !.dups = check_duplicate_keys(obj),
                   !.diff = EmptyFrame,
                   !.merge_df = EmptyFrame,
                   !.metadata = <<>>,
                   !.column_mapping = {},
                   !.pc = "compare"]
    /\ UNCHANGED <<UnitIdle, args>>

\* _compare with the duplicate handling ahead of the test on equal tables
CompareEquals_DedupFirst ==
    /\ obj.pc = "compare"
    /\ obj' = IF obj.dups THEN [obj EXCEPT !.pc = "dedup_left"]
              ELSE IF FrameEquals(obj.left, obj.right)
              THEN [obj EXCEPT !.diff = NoFrame, !.pc = "done"]
              ELSE [obj EXCEPT !.pc = "merge"]
    /\ UNCHANGED <<UnitIdle, args>>

\* lines 364-368: the short-circuit on equal tables
CompareEquals ==
    /\ obj.pc = "compare"
    /\ obj' = IF FrameEquals(obj.left, obj.right)
              THEN [obj EXCEPT !.diff = NoFrame, !.pc = "done"]
              ELSE [obj EXCEPT !.pc = IF obj.dups THEN "dedup_left" ELSE "merge"]
    /\ UNCHANGED <<UnitIdle, args>>

\* line 369: handle_duplicate_keys works on the caller's table itself, and
\* the assignment runs the setter of left
DedupLeft ==
    /\ obj.pc = "dedup_left"
    /\ LET h == handle_duplicate_keys(obj, obj.left)
           o == [obj EXCEPT !.key_columns = h.keys, !.left = h.out]
           err == validate_dataframe(o, "left")
       IN  /\ obj' = IF err # "" THEN Raise(o, err)
                     ELSE [o EXCEPT !.pc = "dedup_right"]
           /\ args' = [args EXCEPT !.left = h.df]
    /\ UNCHANGED UnitIdle

\* line 370
DedupRight ==
    /\ obj.pc = "dedup_right"
    /\ LET h == handle_duplicate_keys(obj, obj.right)
           o == [obj EXCEPT !.key_columns = h.keys, !.right = h.out]
           err == validate_dataframe(o, "right")
       IN  /\ obj' = IF err # "" THEN Raise(o, err) ELSE [o EXCEPT !.pc = "merge"]
           /\ args' = [args EXCEPT !.right = h.df]
    /\ UNCHANGED UnitIdle

\* line 373
Merge ==
    /\ obj.pc = "merge"
    /\ obj' = [obj EXCEPT !.merge_df = merge_dataframe(obj), !.pc = "diff"]
    /\ UNCHANGED <<UnitIdle, args>>

\* lines 376-383 given the outcome of multiprocess_compare per partition:
\* the results are appended in partition order; Pool.map re-raises the
\* exception of whichever failing partition reported first
Collect(o, results) ==
    LET failed == {p \in DOMAIN results : results[p].err # ""}
    IN  IF failed # {}
        THEN {Raise(o, results[p].err) : p \in failed}
        ELSE {[o EXCEPT !.diff = IF o.pool_size = 1 THEN results[1].val
                                 ELSE AppendAll(o.diff,
                                          [p \in DOMAIN results |-> results[p].val]),
                        !.pc = "drop_columns"]}

\* the tables multiprocess_compare is called on
Partitions(o) ==
    IF o.pool_size = 1 THEN <<o.merge_df>> ELSE array_split(o.merge_df, o.pool_size)

\* lines 376-383: one call on the merged table, or one call per partition
Diff ==
    /\ obj.pc = "diff"
    /\ obj' \in Collect([obj EXCEPT !.column_mapping = common_columns(obj)],
                        [p \in 1..obj.pool_size |->
                            multiprocess_compare(obj, Partitions(obj)[p])])
    /\ UNCHANGED <<UnitIdle, args>>

\* line 384
DropNonDiffColumns ==
    /\ obj.pc = "drop_columns"
    /\ obj' = [obj EXCEPT !.diff = drop_non_diff_columns(obj), !.pc = "metadata"]
    /\ UNCHANGED <<UnitIdle, args>>

\* line 385
PrepareMetadata ==
    /\ obj.pc = "metadata"
    /\ obj' = [obj EXCEPT !.metadata = prepare_metadata(obj.diff), !.pc = "done"]
    /\ UNCHANGED <<UnitIdle, args>>

Next ==
    \/ Construct
    \/ SetLeft
    \/ SetRight
    \/ Configure
    \/ CompareEquals
    \/ DedupLeft
    \/ DedupRight
    \/ Merge
    \/ Diff
    \/ DropNonDiffColumns
    \/ PrepareMetadata

(***************************************************************************)
(* The tables and configurations Compare is constructed with.              *)
(***************************************************************************)
Keys == {1, 2}

\* a table with the int64 key column k and the column v, default index
Table(keys, dtype, vals) ==
    DataFrame(<<"k", "v">>, RangeIndex(Len(keys)),
              [c \in {"k", "v"} |->
                  IF c = "k" THEN Column("int64", [i \in 1..Len(keys) |-> Num(keys[i])])
                  ELSE Column(dtype, vals)])

\* a table with the key column only
KeyTable(keys) ==
    DataFrame(<<"k">>, RangeIndex(Len(keys)),
              [c \in {"k"} |-> Column("int64", [i \in 1..Len(keys) |-> Num(keys[i])])])

TableVals(dtype) ==
    CASE dtype = "float64" -> {NaN, Num(1), Num(2)}
      [] dtype = "datetime64" -> {NaT, Dt(6), Dt(8)}
      [] dtype = "bool" -> BoolVals
      [] OTHER -> {Str(<<"a", "b", "c">>), Str(<<"1">>), NaN, None}

Tables(dtype, n) ==
    IF dtype = "" THEN {KeyTable(ks) : ks \in [1..n -> Keys]}
    ELSE {Table(ks, dtype, vs) : ks \in [1..n -> Keys], vs \in [1..n -> TableVals(dtype)]}

\* dtype of v on the left and on the right ("": no column v)
TablePairings ==
    { <<"float64", "float64">>, <<"datetime64", "datetime64">>,
      <<"object", "object">>, <<"bool", "bool">>, <<"float64", "object">>,
      <<"", "">> }

\* the scenario of two int64 tables keyed on k, the right one with a
\* changed value and an extra row
ScenarioLeft == Table(<<1, 2>>, "int64", <<Num(10), Num(20)>>)
ScenarioRight == Table(<<1, 2, 3>>, "int64", <<Num(10), Num(21), Num(5)>>)

\* two tables with the object columns v and w, where v differs in the row
\* of key 1 and w in no row
WideTable(vs) ==
    DataFrame(<<"k", "v", "w">>, RangeIndex(2),
              [c \in {"k", "v", "w"} |->
                  IF c = "k" THEN Column("int64", <<Num(1), Num(2)>>)
                  ELSE IF c = "v" THEN Column("object", vs)
                  ELSE Column("object", <<Str(<<"x">>), Str(<<"y">>)>>)])
WideLeft == WideTable(<<Str(<<"a">>), Str(<<"b">>)>>)
WideRight == WideTable(<<Str(<<"c">>), Str(<<"b">>)>>)

\* WideRight without the column w
NarrowRight == Table(<<1, 2>>, "object", <<Str(<<"c">>), Str(<<"b">>)>>)

\* the pairs of tables the three flags are varied on: with a column that
\* does not differ, with a column of the left table only, with a column of
\* the right table only
FlagPairs ==
    { <<WideLeft, WideRight>>, <<WideLeft, NarrowRight>>, <<NarrowRight, WideLeft>> }

TablePairs ==
    {<<ScenarioLeft, ScenarioRight>>, <<WideLeft, WideRight>>} \cup
    UNION { UNION { UNION { Tables(p[1], nl) \X Tables(p[2], nr) :
                            nr \in 1..(MaxRows - nl) } :
                    nl \in 1..(MaxRows - 1) } :
            p \in TablePairings }

Arguments(l, r, policy, t, pool) ==
    [left |-> l, right |-> r, on_index |-> FALSE, key_columns |-> <<"k">>,
     if_duplicate_keys |-> policy, tol |-> t, pool_size |-> pool,
     ignore_extra_columns |-> FALSE, keep_only_diff_rows |-> TRUE,
     keep_only_diff_columns |-> TRUE]

PoolSizes == {1, 2}

\* a duplicate-key policy outside IF_DUPLICATE_KEY_METHODS
InvalidPolicies == {"first"}

\* tables _validate_dataframe rejects: None, pd.DataFrame(), a table without
\* rows, a table without the key column
NoColumns == DataFrame(<<>>, <<>>, <<>>)
NoRows ==
    DataFrame(<<"k", "v">>, <<>>, [c \in {"k", "v"} |-> Column("float64", <<>>)])
NoKeyColumn ==
    DataFrame(<<"v">>, RangeIndex(1), [c \in {"v"} |-> Column("float64", <<Num(1)>>)])
InvalidTables == {NoneFrame, NoColumns, NoRows, NoKeyColumn}

\* a few valid tables, one of them with a duplicate key
FewTables ==
    { Table(<<1>>, "float64", <<Num(1)>>),
      Table(<<1, 1>>, "float64", <<Num(1), Num(2)>>),
      Table(<<2>>, "object", <<Str(<<"a", "b", "c">>)>>) }

\* every configuration for a table compared with itself; for two tables the
\* default configuration varied in one argument at a time; for a few valid
\* and invalid tables every way of naming the key and the policy
Init ==
    /\ fn = "" /\ col1 = NoSeries /\ col2 = NoSeries /\ tol = ZeroTol
    /\ ret = Pending
    /\ obj = NewObject
    /\ workers = NoPool
    /\ \/ \E pair \in TablePairs :
            \/ \E t \in Tolerances : args = Arguments(pair[1], pair[2], "drop", t, 1)
            \/ \E policy \in IF_DUPLICATE_KEY_METHODS \cup InvalidPolicies :
                 args = Arguments(pair[1], pair[2], policy, ZeroTol, 1)
            \/ \E pool \in PoolSizes :
                 args = Arguments(pair[1], pair[2], "drop", ZeroTol, pool)
       \/ \E pair \in TablePairs, policy \in IF_DUPLICATE_KEY_METHODS,
             t \in Tolerances, pool \in PoolSizes :
            args = Arguments(pair[1], pair[1], policy, t, pool)
       \/ \E l, r \in InvalidTables \cup FewTables,
             policy \in IF_DUPLICATE_KEY_METHODS \cup InvalidPolicies,
             keys \in {NoKeys, <<"k">>}, on_index \in BOOLEAN :
            args = [Arguments(l, r, policy, ZeroTol, 1)
                      EXCEPT !.on_index = on_index, !.key_columns = keys]
       \/ \E pair \in FlagPairs, pool \in PoolSizes,
             rows \in BOOLEAN, columns \in BOOLEAN, ignore \in BOOLEAN :
            args = [Arguments(pair[1], pair[2], "drop", ZeroTol, pool)
                      EXCEPT !.keep_only_diff_rows = rows,
                             !.keep_only_diff_columns = columns,
                             !.ignore_extra_columns = ignore]

Spec == Init /\ [][Next]_vars

(***************************************************************************)
(* The ThreadPool of lines 379-383, one action per step of a worker.  Each *)
(* worker runs multiprocess_compare on its partition; reads and writes     *)
(* record the attributes of the Compare object and the tables the worker   *)
(* has read and written.                                                   *)
(***************************************************************************)
\* a worker about to enter the loop of line 336 on the partition df
Worker(df, columns) ==
    [pc |-> "loop", df |-> df, todo |-> columns, res |-> <<>>, err |-> "",
     val |-> NoFrame, reads |-> {}, writes |-> {}]

\* lines 379-381: array_split and the start of one worker per partition
StartPool ==
    /\ obj.pc = "diff" /\ obj.pool_size # 1 /\ workers = NoPool
    /\ workers' = [p \in 1..obj.pool_size |->
                      Worker(Partitions(obj)[p], common_columns(obj))]
    /\ UNCHANGED <<fn, col1, col2, tol, ret, args, obj>>

\* the worker p after one pass of the loop body (lines 337-349) on column c
\* with the outcome out of compare_column
LoopBody(w, p, c, out) ==
    [w EXCEPT !.todo = @ \ {c},
              !.res = IF out.err # "" THEN @
                      ELSE [d \in DOMAIN w.res \cup {c} |->
                               IF d = c THEN out ELSE w.res[d]],
              !.pc = IF out.err # "" THEN "raised" ELSE "loop",
              !.err = out.err,
              !.reads = @ \cup {<<"left", "columns">>, <<"right", "columns">>,
                                <<"key_columns">>, <<"tol">>,
                                <<"merge_df", p, c \o lsuffix>>,
                                <<"merge_df", p, c \o rsuffix>>},
              !.writes = @ \cup {<<"column_mapping", c>>}]

\* lines 336-349: worker p handles one more common column; line 340 stores
\* the names of its three columns in the dict self.column_mapping
WorkerColumn(p) ==
    /\ workers[p].pc = "loop"
    /\ \E c \in workers[p].todo :
         /\ workers' = [workers EXCEPT ![p] =
                LoopBody(workers[p], p, c,
                         compare_column(ColumnOf(workers[p].df, c \o lsuffix),
                                        ColumnOf(workers[p].df, c \o rsuffix),
                                        obj.tol))]
         /\ obj' = [obj EXCEPT !.column_mapping = @ \cup {c}]
    /\ UNCHANGED <<fn, col1, col2, tol, ret, args>>

\* lines 350-361: worker p leaves the loop, adds the markers, filters the
\* rows and returns the diff of its partition
WorkerReturn(p) ==
    /\ workers[p].pc = "loop" /\ workers[p].todo = {}
    /\ workers' = [workers EXCEPT ![p] =
           [workers[p] EXCEPT
               !.pc = "returned",
               !.val = AssembleDiff(obj, workers[p].df, workers[p].res),
               !.reads = @ \cup {<<"left", "columns">>, <<"right", "columns">>,
                                 <<"keep_only_diff_rows">>,
                                 <<"merge_df", p, "rows_present">>}]]
    /\ UNCHANGED <<fn, col1, col2, tol, ret, args, obj>>

\* lines 381-383: map returns once every worker has finished, with the
\* results in partition order or the exception of a failed worker
Gather ==
    /\ obj.pc = "diff" /\ workers # NoPool
    /\ \A p \in DOMAIN workers : workers[p].pc \in {"returned", "raised"}
    /\ obj' \in Collect(obj, [p \in DOMAIN workers |->
                                [err |-> workers[p].err, val |-> workers[p].val]])
    /\ workers' = [p \in DOMAIN workers |-> [workers[p] EXCEPT !.pc = "joined"]]
    /\ UNCHANGED <<fn, col1, col2, tol, ret, args>>

NextWorkers ==
    \/ Construct
    \/ SetLeft
    \/ SetRight
    \/ Configure
    \/ CompareEquals
    \/ DedupLeft
    \/ DedupRight
    \/ Merge
    \/ StartPool
    \/ \E p \in DOMAIN workers : WorkerColumn(p)
    \/ \E p \in DOMAIN workers : WorkerReturn(p)
    \/ Gather
    \/ DropNonDiffColumns
    \/ PrepareMetadata

\* the constructor calls that start a ThreadPool
InitWorkers == Init /\ args.pool_size # 1

SpecWorkers == InitWorkers /\ [][NextWorkers]_vars

(***************************************************************************)
(* Properties.                                                             *)
(***************************************************************************)
\* |a - b| <= atol + rtol * |b| for two numbers
WithinTolerance(a, b, t) ==
    Abs(a.v - b.v) * t.rden <= t.atol * t.rden + t.rnum * Abs(b.v)

\* two cells count as equal: both null, the same value, or two numbers (as
\* they are or after coercion) within the tolerance
EqualUnderTolerance(a, b, t) ==
    \/ IsNull(a) /\ IsNull(b)
    \/ /\ ~IsNull(a) /\ ~IsNull(b)
       /\ \/ ~PyNe(a, b)
          \/ /\ PyFloat(a).ok = "ok" /\ PyFloat(b).ok = "ok"
             /\ PyFloat(a).val.t = "num" /\ PyFloat(b).val.t = "num"
             /\ WithinTolerance(PyFloat(a).val, PyFloat(b).val, t)

Finished == obj.pc \in {"done", "error"}

\* the caller names key columns and a known duplicate-key policy
KeyColumnsGiven ==
    /\ ~args.on_index /\ args.key_columns # NoKeys
    /\ args.if_duplicate_keys \in IF_DUPLICATE_KEY_METHODS

\* df is a DataFrame, non-empty, and holds every key column
ValidTable(df) ==
    /\ df.type = "DataFrame" /\ df.index # <<>> /\ df.columns # <<>>
    /\ Range(args.key_columns) \subseteq Range(df.columns)

\* table df passes _validate_dataframe
PassesValidation(df) == KeyColumnsGiven /\ ValidTable(df)

\* the two tables are valid and left.equals(right)
EqualInputs ==
    /\ PassesValidation(args.left) /\ PassesValidation(args.right)
    /\ FrameEquals(args.left, args.right)

\* C1: comparing a valid table with itself (or with a table that equals it)
\* raises no error for any tolerance, policy and pool size, never enters
\* deduplication, merge or diffing, and ends with diff None and with
\* merge_df, metadata and column_mapping empty.
C1_EqualTablesShortCircuit ==
    EqualInputs =>
        /\ obj.pc \in {"init", "set_left", "set_right", "configure", "compare", "done"}
        /\ obj.pc = "done" =>
             /\ obj.diff = NoFrame
             /\ obj.merge_df = EmptyFrame
             /\ obj.metadata = <<>>
             /\ obj.column_mapping = {}

C1_Witness ==
    /\ EqualInputs /\ obj.pc = "done" /\ obj.diff = NoFrame
    /\ obj.dups /\ obj.if_dupes = "sort" /\ obj.pool_size = 2 /\ obj.tol # ZeroTol

\* the rows of the final diff that carry key x
DiffRows(x) == {m \in 1..Len(obj.diff.index) : obj.diff.index[m] = x}

\* C2: for the tables {(1,10),(2,20)} and {(1,10),(2,21),(3,5)} keyed on k
\* with atol = rtol = 0, construction completes and the diff holds the row
\* k=2 with diff -1 on v, the row k=3 flagged right_only, and no row k=1.
C2_ScenarioDiff ==
    ( /\ Finished
      /\ args.left = ScenarioLeft /\ args.right = ScenarioRight
      /\ args.tol = ZeroTol ) =>
        /\ obj.pc = "done"
        /\ "v_diff" \in DOMAIN obj.diff.data
        /\ \E m \in DiffRows(2) : obj.diff.data["v_diff"].vals[m] = Num(-1)
        /\ \E m \in DiffRows(3) : obj.diff.present[m] = "right_only"
        /\ DiffRows(1) = {}

DirectCallDone(f) == fn = f /\ ret.state = "returned"

\* C3: on two numeric columns with the default positional index,
\* compare_numeric_columns returns, and at every position where both values
\* are non-null the diff is null when |a-b| <= atol + rtol*|b| and a-b
\* otherwise.
C3_NumericTolerance ==
    ( /\ DirectCallDone("compare_numeric_columns")
      /\ col1.idx = RangeIndex(Size(col1)) ) =>
        /\ ret.err = ""
        /\ \A i \in 1..Size(col1) :
             LET a == col1.vals[i]
                 b == col2.vals[i]
             IN  (a.t = "num" /\ b.t = "num") =>
                     IF WithinTolerance(a, b, tol) THEN IsNull(ret.val.vals[i])
                     ELSE ret.val.vals[i] = Num(a.v - b.v)

\* a call on the default index with rtol > 0 where one position differs
\* within the tolerance and another one outside it
C3_Witness ==
    /\ DirectCallDone("compare_numeric_columns") /\ ret.err = ""
    /\ col1.idx = RangeIndex(Size(col1))
    /\ tol.rnum > 0
    /\ \E i, j \in 1..Size(col1) :
         /\ col1.vals[i].t = "num" /\ col2.vals[i].t = "num"
         /\ col1.vals[i] # col2.vals[i] /\ IsNull(ret.val.vals[i])
         /\ col1.vals[j].t = "num" /\ col2.vals[j].t = "num"
         /\ ret.val.vals[j] = Num(col1.vals[j].v - col2.vals[j].v)

\* C4: compare_numeric_columns returns DIFF.TRUE at every position where
\* exactly one value is null, and null where both are null, for every atol
\* and rtol.
C4_OneSidedNullSentinel ==
    (DirectCallDone("compare_numeric_columns") /\ ret.err = "") =>
        \A i \in 1..Size(col1) :
            LET a == col1.vals[i]
                b == col2.vals[i]
            IN  /\ (IsNull(a) /\ IsNull(b)) => IsNull(ret.val.vals[i])
                /\ (IsNull(a) # IsNull(b)) => ret.val.vals[i] = DIFF_TRUE

\* the keys of the caller's tables
KeysOf(df) == {KeyAt(df, "k", i) : i \in 1..Len(df.index)}
LeftOnlyKeys == KeysOf(args.left) \ KeysOf(args.right)
RightOnlyKeys == KeysOf(args.right) \ KeysOf(args.left)

Completed == obj.pc = "done" /\ obj.diff # NoFrame

\* C5: with keep_only_diff_rows, every key that occurs in one table only has
\* a row in the final diff, flagged left_only or right_only, whose diff cell
\* is DIFF.TRUE in every compared column, whatever the column type.
C5_OneSidedRowsReported ==
    (Completed /\ obj.keep_only_diff_rows) =>
        \A x \in LeftOnlyKeys \cup RightOnlyKeys :
            \E m \in DiffRows(x) :
                /\ obj.diff.present[m] =
                       (IF x \in LeftOnlyKeys THEN "left_only" ELSE "right_only")
                /\ \A c \in common_columns(obj) :
                       /\ (c \o dsuffix) \in DOMAIN obj.diff.data
                       /\ obj.diff.data[c \o dsuffix].vals[m] = DIFF_TRUE

\* some row of the left table and some row of the right table with key x
\* differ in a compared column
KeyDiffers(x) ==
    \E i \in 1..Len(args.left.index), j \in 1..Len(args.right.index) :
        /\ KeyAt(args.left, "k", i) = x /\ KeyAt(args.right, "k", j) = x
        /\ \E c \in common_columns(obj) :
               ~EqualUnderTolerance(args.left.data[c].vals[i],
                                    args.right.data[c].vals[j], obj.tol)

\* C6: with keep_only_diff_rows, every row of the final diff has a key that
\* is missing on one side or a compared column whose left and right values
\* are not equal under the tolerance.
C6_OnlyDifferingRows ==
    (Completed /\ obj.keep_only_diff_rows) =>
        \A m \in 1..Len(obj.diff.index) :
            \/ obj.diff.present[m] # "both"
            \/ KeyDiffers(obj.diff.index[m])

\* the diff cell of row i after compare_column: multiprocess_compare stores
\* NaN in every row when compare_column returns None
DiffCell(i) == IF ret.val = NoSeries THEN NaN ELSE ret.val.vals[i]

\* C7: for every type pairing and every row, the diff cell that
\* compare_column yields is null exactly when the left and the right value
\* are equal under the tolerance.
C7_NullIffEqual ==
    (DirectCallDone("compare_column") /\ ret.err = "") =>
        \A i \in 1..Size(col1) :
            IsNull(DiffCell(i)) <=> EqualUnderTolerance(col1.vals[i], col2.vals[i], tol)

Coercible(c) == PyFloat(c).ok = "ok"

\* C9: compare_object_columns never raises; cells equal by direct equality
\* get no diff, and unequal cells of which at least one cannot be coerced
\* to a number (a text of another case, with extra blanks, a None) get
\* DIFF.TRUE.
C9_ObjectSentinel ==
    DirectCallDone("compare_object_columns") =>
        /\ ret.err = ""
        /\ \A i \in 1..Size(col1) :
             LET a == col1.vals[i]
                 b == col2.vals[i]
             IN  /\ ~PyNe(a, b) => IsNull(ret.val.vals[i])
                 /\ (PyNe(a, b) /\ (~Coercible(a) \/ ~Coercible(b))) =>
                        ret.val.vals[i] = DIFF_TRUE

\* C10: in compare_object_columns two unequal cells that both coerce to
\* numbers a and b get no diff when |a-b| <= atol + rtol*|b| or both are
\* NaN, DIFF.TRUE when exactly one is NaN, and a-b otherwise.
C10_ObjectNumericDiff ==
    (DirectCallDone("compare_object_columns") /\ ret.err = "") =>
        \A i \in 1..Size(col1) :
            LET x == col1.vals[i]
                y == col2.vals[i]
                a == PyFloat(x).val
                b == PyFloat(y).val
                d == ret.val.vals[i]
            IN  (PyNe(x, y) /\ Coercible(x) /\ Coercible(y)) =>
                    IF a.t = "nan" /\ b.t = "nan" THEN IsNull(d)
                    ELSE IF a.t = "nan" \/ b.t = "nan" THEN d = DIFF_TRUE
                    ELSE IF WithinTolerance(a, b, tol) THEN IsNull(d)
                    ELSE d = Num(a.v - b.v)

\* "1" against " 2" gives -1 next to a number against NaN
C10_Witness ==
    /\ DirectCallDone("compare_object_columns") /\ ret.err = ""
    /\ tol = ZeroTol
    /\ \E i, j \in 1..Size(col1) :
         /\ col1.vals[i] = Str(<<"1">>) /\ col2.vals[i] = Str(<<" ", "2">>)
         /\ ret.val.vals[i] = Num(-1)
         /\ col1.vals[j] = Str(<<"1">>) /\ col2.vals[j] = NaN
         /\ ret.val.vals[j] = DIFF_TRUE

\* duplicate-key handling has run on both tables
AfterDedup ==
    /\ obj.dups
    /\ obj.pc \in {"merge", "diff", "drop_columns", "metadata", "done"}
    /\ obj.pc = "done" => obj.diff # NoFrame

\* the rows of df that carry the first occurrence of their key tuple
FirstOccurrences(df) ==
    LET dup == Duplicated(KeyTuples(df, args.key_columns))
    IN  TakeInputRows(df, Positions([i \in 1..Len(df.index) |-> ~dup[i]], 1))

\* C11: under the policy 'drop', once duplicate keys have been handled each
\* table holds exactly the first occurrence of every key tuple in input row
\* order (so every key occurs once and no row with a unique key is lost), and
\* the aligned table has at most one row per key.
C11_DropKeepsFirstOccurrence ==
    (obj.if_dupes = "drop" /\ AfterDedup) =>
        /\ obj.left = FirstOccurrences(args.left)
        /\ obj.right = FirstOccurrences(args.right)
        /\ obj.pc # "merge" =>
             \A i, j \in 1..Len(obj.merge_df.index) :
                 obj.merge_df.index[i] = obj.merge_df.index[j] => i = j

\* C12: under the policy 'sort' with a duplicate key, construction completes
\* without error and, when the tables are not equal, both tables carry the
\* ordinal sort_key as an additional key level and the key column list holds
\* sort_key exactly once.
C12_SortAppendsOrdinal ==
    (obj.if_dupes = "sort" /\ obj.dups /\ Finished) =>
        /\ obj.pc = "done"
        /\ obj.diff # NoFrame =>
             /\ obj.key_columns = <<"k", "sort_key">>
             /\ obj.left.levels = <<"sort_key">>
             /\ obj.right.levels = <<"sort_key">>

\* C13: with the policy 'aggregate' and two valid tables, construction always
\* ends with an error that says the policy is not implemented, with or without
\* duplicate keys, and never with a diff.
C13_AggregateNotImplemented ==
    ( /\ args.if_duplicate_keys = "aggregate"
      /\ PassesValidation(args.left) /\ PassesValidation(args.right)
      /\ Finished ) =>
        /\ obj.pc = "error"
        /\ obj.err = "NotImplementedError"


\* some key occurs twice in table df
HasDuplicateKey(df) ==
    \E i, j \in 1..Len(df.index) : i # j /\ KeyAt(df, "k", i) = KeyAt(df, "k", j)

\* C14: with a duplicate-key policy outside {drop, sort, aggregate} the
\* constructor ends in an error at its first step: no table has been stored
\* or validated, no duplicate check, merge, diff or metadata has run, whether
\* or not the tables hold duplicate keys.
C14_InvalidPolicyRaisesFirst ==
    (args.if_duplicate_keys \notin IF_DUPLICATE_KEY_METHODS /\ obj.pc # "init") =>
        /\ obj.pc = "error"
        /\ obj.err \in {"ValueError: not a valid strategy",
                        "Exception: Provide key_columns, or set on_index = True"}
        /\ obj.left = NoneFrame /\ obj.right = NoneFrame
        /\ ~obj.dups
        /\ obj.merge_df = NoFrame /\ obj.diff = NoFrame /\ obj.metadata = <<>>

\* an unknown policy is refused for two valid tables, one with a duplicate key
C14_Witness ==
    /\ args.if_duplicate_keys \notin IF_DUPLICATE_KEY_METHODS
    /\ obj.pc = "error" /\ obj.err = "ValueError: not a valid strategy"
    /\ ValidTable(args.left) /\ ValidTable(args.right)
    /\ HasDuplicateKey(args.left)


\* the messages of the three checks of _validate_dataframe for one table
ValidationErrors(index) ==
    { "TypeError: " \o index \o " must be a pandas DataFrame",
      "ValueError: " \o index \o " can not be empty",
      "ValueError: " \o index \o " must have all columns from key columns" }

\* construction has ended in an error of _validate_dataframe
ValidationRaised ==
    /\ obj.pc = "error"
    /\ obj.err \in ValidationErrors("left") \cup ValidationErrors("right")

\* the error the claim expects for an invalid table: type, then emptiness,
\* then key columns
ExpectedError(index, df) ==
    IF df.type # "DataFrame" THEN "TypeError: " \o index \o " must be a pandas DataFrame"
    ELSE IF df.index = <<>> \/ df.columns = <<>>
    THEN "ValueError: " \o index \o " can not be empty"
    ELSE "ValueError: " \o index \o " must have all columns from key columns"

C18_OnIndexAligns ==
    ( /\ args.on_index /\ args.key_columns = NoKeys
      /\ args.if_duplicate_keys \in IF_DUPLICATE_KEY_METHODS
      /\ args.left.type = "DataFrame" /\ args.left.index # <<>>
      /\ args.right.type = "DataFrame" /\ args.right.index # <<>>
      /\ Finished ) =>
        /\ obj.pc = "done"
        /\ obj.diff # NoFrame =>
             /\ Range(obj.merge_df.index) =
                    Range(args.left.index) \cup Range(args.right.index)
             /\ \A m \in 1..Len(obj.merge_df.index) :
                    obj.merge_df.present[m] =
                        IF obj.merge_df.index[m] \notin Range(args.right.index)
                        THEN "left_only"
                        ELSE IF obj.merge_df.index[m] \notin Range(args.left.index)
                        THEN "right_only"
                        ELSE "both"


Ascending(seq) == \A i, j \in 1..Len(seq) : i < j => seq[i] <= seq[j]

\* C19: the aligned table holds every key of either table, marked with the
\* side it is present on, in ascending key order; the partitions handed to
\* the workers are consecutive row ranges of it; and for every pool size the
\* rows of the diff are in ascending key order.
C19_SortedOuterJoin ==
    /\ obj.merge_df.index # <<>> =>
         /\ Ascending(obj.merge_df.index)
         /\ Range(obj.merge_df.index) = KeysOf(obj.left) \cup KeysOf(obj.right)
         /\ \A m \in 1..Len(obj.merge_df.index) :
                obj.merge_df.present[m] =
                    IF obj.merge_df.index[m] \notin KeysOf(obj.right) THEN "left_only"
                    ELSE IF obj.merge_df.index[m] \notin KeysOf(obj.left)
                    THEN "right_only"
                    ELSE "both"
    /\ obj.pc = "diff" =>
         Flatten([p \in 1..obj.pool_size |-> Partitions(obj)[p].index])
             = obj.merge_df.index
    /\ (obj.pc \in {"drop_columns", "metadata"} \/ Completed) =>
         Ascending(obj.diff.index)

\* a diff made by two workers with a row from each partition
C19_Witness ==
    /\ Completed /\ obj.pool_size = 2
    /\ Len(obj.diff.index) = 2
    /\ obj.diff.index[1] < obj.diff.index[2]
    /\ obj.diff.present[2] = "left_only"


\* the three columns of the compared column c
Triple(c) == {c \o lsuffix, c \o rsuffix, c \o dsuffix}

\* row m of the diff carries the left and right values of column c of an
\* aligned row with the same key and the same presence marker
OriginalValues(diff, c, m) ==
    \E i \in 1..Len(obj.merge_df.index) :
        /\ obj.merge_df.index[i] = diff.index[m]
        /\ obj.merge_df.present[i] = diff.present[m]
        /\ obj.merge_df.data[c \o lsuffix].vals[i] = diff.data[c \o lsuffix].vals[m]
        /\ obj.merge_df.data[c \o rsuffix].vals[i] = diff.data[c \o rsuffix].vals[m]

\* C20: the step that drops columns leaves, for every compared column c, the
\* three columns of c together when the diff column of c has a non-null cell
\* and none of them otherwise, the rows and the retained diff cells as they
\* were, and the retained left and right cells equal to the values of the
\* aligned rows.
C20_ColumnTriples ==
    [][ obj.pc = "drop_columns" =>
          /\ obj'.diff.index = obj.diff.index
          /\ \A c \in common_columns(obj) :
               IF count_notna(obj.diff.data[c \o dsuffix].vals) > 0
               THEN /\ Triple(c) \subseteq DOMAIN obj'.diff.data
                    /\ obj'.diff.data[c \o dsuffix] = obj.diff.data[c \o dsuffix]
                    /\ \A m \in 1..Len(obj'.diff.index) :
                           OriginalValues(obj'.diff, c, m)
               ELSE Triple(c) \cap DOMAIN obj'.diff.data = {} ]_vars

\* a completed comparison that kept the three columns of v and dropped the
\* three columns of w
C20_Witness ==
    /\ Completed
    /\ common_columns(obj) = {"v", "w"}
    /\ Len(obj.diff.index) > 0
    /\ Triple("v") \subseteq DOMAIN obj.diff.data
    /\ Triple("w") \cap DOMAIN obj.diff.data = {}


\* C21: with keep_only_diff_rows=False every aligned row is in the diff, and
\* with keep_only_diff_columns=False the left, right and diff column of every
\* compared column are in the diff, with or without a non-null diff.
C21_KeepFlags ==
    Completed =>
        /\ ~obj.keep_only_diff_rows => obj.diff.index = obj.merge_df.index
        /\ ~obj.keep_only_diff_columns =>
               \A c \in common_columns(obj) : Triple(c) \subseteq DOMAIN obj.diff.data


\* the names of the two missing-columns markers
MarkerNames == {lsuffix \o "_missing_columns", rsuffix \o "_missing_columns"}

\* C22: with ignore_extra_columns=True the diff carries no missing-columns
\* marker and the metadata no entry for one; with ignore_extra_columns=False
\* the rows of the diff carry the markers naming the columns of the left
\* table only and of the right table only.
C22_IgnoreExtraColumns ==
    Completed =>
        IF obj.ignore_extra_columns
        THEN /\ obj.diff.lmiss = {} /\ obj.diff.rmiss = {}
             /\ DOMAIN obj.metadata \cap MarkerNames = {}
        ELSE Len(obj.diff.index) > 0 =>
                 /\ obj.diff.rmiss = left_unq_columns(obj)
                 /\ obj.diff.lmiss = right_unq_columns(obj)


\* C23: after a completed comparison the metadata has, for every compared
\* column, an entry for its left, right and diff column, and the left and
\* right entries are the numbers of non-null values of that column in the
\* aligned rows.
C23_MetadataCounts ==
    Completed =>
        \A c \in common_columns(obj) :
            /\ Triple(c) \subseteq DOMAIN obj.metadata
            /\ obj.metadata[c \o lsuffix] =
                   count_notna(obj.merge_df.data[c \o lsuffix].vals)
            /\ obj.metadata[c \o rsuffix] =
                   count_notna(obj.merge_df.data[c \o rsuffix].vals)


\* the dtypes of compared column c in the aligned table
LeftDtype(c) == obj.merge_df.data[c \o lsuffix].dtype
RightDtype(c) == obj.merge_df.data[c \o rsuffix].dtype

\* compare_column has a comparison for the pairing of dtypes d1 and d2
SupportedPairing(d1, d2) ==
    \/ IsNumberDtype(d1) /\ IsNumberDtype(d2)
    \/ Kind(d1) = "M" /\ Kind(d2) = "M"
    \/ Kind(d1) = "O" \/ Kind(d2) = "O"

\* C24: once the tables are aligned, a comparison without a pair of numeric
\* columns never ends in an error, whatever the pairing of the column types
\* and whatever the cells hold, and a column with an unsupported pairing has
\* no diff column in the result.
C24_UnsupportedPairingNoAbort ==
    ( /\ obj.merge_df.type = "DataFrame" /\ obj.merge_df.index # <<>>
      /\ \A c \in common_columns(obj) :
             ~(IsNumberDtype(LeftDtype(c)) /\ IsNumberDtype(RightDtype(c))) ) =>
        /\ obj.pc # "error"
        /\ Completed =>
             \A c \in common_columns(obj) :
                 ~SupportedPairing(LeftDtype(c), RightDtype(c)) =>
                     (c \o dsuffix) \notin DOMAIN obj.diff.data


\* the rows, the columns and the values of a diff, every null value alike
Content(frame) ==
    [index |-> frame.index, present |-> frame.present,
     lmiss |-> frame.lmiss, rmiss |-> frame.rmiss,
     cells |-> [name \in DOMAIN frame.data |->
                   [m \in 1..Len(frame.index) |->
                       IF IsNull(frame.data[name].vals[m]) THEN NaN
                       ELSE frame.data[name].vals[m]]]]

\* what lines 376-385 can end with for the aligned object o: an exception, or
\* the content of the final diff and the metadata
FinalResults(o) ==
    LET ends == Collect([o EXCEPT !.column_mapping = common_columns(o)],
                        [p \in 1..o.pool_size |->
                            multiprocess_compare(o, Partitions(o)[p])])
    IN  { IF r.pc = "error" THEN [err |-> r.err, diff |-> <<>>, metadata |-> <<>>]
          ELSE [err |-> "", diff |-> Content(drop_non_diff_columns(r)),
                metadata |-> prepare_metadata(drop_non_diff_columns(r))] :
          r \in ends }

\* C25: for every aligned table the comparison with pool_size > 1 ends with
\* the same rows, columns, diff values and metadata as the comparison of the
\* same tables with pool_size = 1.
C25_PoolEquivalence ==
    obj.pc = "diff" =>
        FinalResults(obj) = FinalResults([obj EXCEPT !.pool_size = 1])


\* a worker that has written an attribute another worker has read or written
Conflicts ==
    {pq \in (DOMAIN workers) \X (DOMAIN workers) :
        /\ pq[1] # pq[2]
        /\ workers[pq[1]].writes
             \cap (workers[pq[2]].reads \cup workers[pq[2]].writes) # {}}

\* C26: while the pool runs no worker writes an attribute of the Compare
\* object or of the aligned table that another worker reads or writes, and
\* each worker returns the diff multiprocess_compare gives for its partition
\* alone.
C26_WorkersShareNothing ==
    /\ Conflicts = {}
    /\ \A p \in DOMAIN workers :
           workers[p].pc = "returned" =>
               workers[p].val = multiprocess_compare(obj, workers[p].df).val
\* C27: on two numeric columns indexed by key values rather than by 0..n-1,
\* compare_numeric_columns returns without a failed lookup, and the diff of
\* row r comes from the two cells of row r: null when both are numbers
\* within the tolerance, their difference when both are numbers outside it.
C27_RowByRowPairing ==
    ( /\ fn = "compare_numeric_columns" /\ ret.state # "pending"
      /\ col1.idx # RangeIndex(Size(col1)) ) =>
        /\ ret.err = ""
        /\ \A r \in 1..Size(col1) :
             LET a == col1.vals[r]
                 b == col2.vals[r]
             IN  (a.t = "num" /\ b.t = "num") =>
                     ret.val.vals[r] = (IF WithinTolerance(a, b, tol) THEN NaN
                                        ELSE Num(a.v - b.v))
=============================================================================
